---- MODULE Spec2Model ----
(***************************************************************************)
(* Model of the rqoi decoder (src/src/lib.rs): Header::decode,             *)
(* Header::encode, Rgba::hash_index, Data::new, Data::reset and the chunk  *)
(* loop of Data::decode_into, one action per match arm.                    *)
(***************************************************************************)
EXTENDS Integers, Sequences, FiniteSets, TLC

VARIABLES
    input,            \* the bytes the Source of the current call yields
    pos,              \* how many of them source.next() has handed out
    last_seen_pixel,  \* Data.last_seen_pixel
    stored_pixels,    \* Data.stored_pixels, [Rgba; 64]
    sink,             \* the pixels pushed to the Sink of the current call
    header,           \* the local `header` of decode_into (None before it is parsed)
    result,           \* what decode_into returned ("none" while it runs)
    pc,               \* position of decode_into: idle, header, loop, done
    calls,            \* number of decode_into calls started on this Data
    overflow_checks,  \* whether the build panics on integer overflow of `+`
    self_header,      \* the Header that Header::encode is applied to
    encoded,          \* the bytes Header::encode returned (<<>> before)
    hash_self,        \* the Rgba that hash_index is applied to
    hash_out          \* what hash_index returned (None before)

vars == <<input, pos, last_seen_pixel, stored_pixels, sink, header, result,
          pc, calls, overflow_checks, self_header, encoded, hash_self, hash_out>>

decoder_vars == <<input, pos, last_seen_pixel, stored_pixels, sink, header,
                  result, pc, calls, overflow_checks>>

\* the arguments and results of the functions applied on their own
pure_vars == <<self_header, encoded, hash_self, hash_out>>

-----------------------------------------------------------------------------
(* Bounds *)

MaxChunks == 2

MaxCalls == 2

-----------------------------------------------------------------------------
(* u8 / u32 arithmetic *)

RECURSIVE BitAnd(_, _)
BitAnd(a, b) ==
    IF a = 0 \/ b = 0 THEN 0
    ELSE (IF a % 2 = 1 /\ b % 2 = 1 THEN 1 ELSE 0) + 2 * BitAnd(a \div 2, b \div 2)

RECURSIVE BitXor(_, _)
BitXor(a, b) ==
    IF a = 0 THEN b
    ELSE IF b = 0 THEN a
    ELSE ((a + b) % 2) + 2 * BitXor(a \div 2, b \div 2)

RECURSIVE Shr(_, _)
Shr(a, n) == IF n = 0 THEN a ELSE Shr(a \div 2, n - 1)

AsU8(x) == x % 256

wrapping_add(a, b) == (a + b) % 256

wrapping_sub(a, b) == (a - b + 256) % 256

wrapping_mul(a, b) == (a * b) % 256

wrapping_rem(a, b) == a % b

from_be_bytes(b) == ((b[1] * 256 + b[2]) * 256 + b[3]) * 256 + b[4]

-----------------------------------------------------------------------------
(* Option, Source *)

None == [some |-> FALSE]

Some(v) == [some |-> TRUE, value |-> v]

\* source.next() of a source that has handed out p bytes of in
next(in, p) == IF p < Len(in) THEN Some(in[p + 1]) ELSE None

Min(a, b) == IF a < b THEN a ELSE b

-----------------------------------------------------------------------------
(* Channels, ColorSpace, Header *)

ChannelsRgb == 3

ChannelsRgba == 4

ChannelsTryFrom(value) ==
    IF value = ChannelsRgb THEN Some("Rgb")
    ELSE IF value = ChannelsRgba THEN Some("Rgba")
    ELSE None

ChannelsAsU8(c) == IF c = "Rgb" THEN ChannelsRgb ELSE ChannelsRgba

SRgbWithLinearAlpha == 0

FullLinear == 1

ColorSpaceTryFrom(value) ==
    IF value = SRgbWithLinearAlpha THEN Some("SRgbWithLinearAlpha")
    ELSE IF value = FullLinear THEN Some("FullLinear")
    ELSE None

ColorSpaceAsU8(c) == IF c = "SRgbWithLinearAlpha" THEN SRgbWithLinearAlpha ELSE FullLinear

MAGIC_STRING == <<113, 111, 105, 102>>

\* Number of leading bytes of in (from p) that agree with MAGIC_STRING
RECURSIVE MagicMatched(_, _, _)
MagicMatched(in, p, k) ==
    IF k = Len(MAGIC_STRING) THEN k
    ELSE IF p + k < Len(in) /\ in[p + k + 1] = MAGIC_STRING[k + 1]
         THEN MagicMatched(in, p, k + 1)
         ELSE k

\* MagicEq with the last byte of the magic left out of the comparison
MagicEqFirstThree(in, p) ==
    LET k == MagicMatched(in, p, 0)
    IN  [eq  |-> k >= Len(MAGIC_STRING) - 1 /\ p + Len(MAGIC_STRING) <= Len(in),
         pos |-> Min(p + Len(MAGIC_STRING), Len(in))]

\* MAGIC_STRING.bytes().eq(source.take(4)): the comparison stops at the
\* first byte that differs (which it has consumed) or at the end of source
MagicEq(in, p) ==
    LET k == MagicMatched(in, p, 0)
    IN  [eq  |-> k = Len(MAGIC_STRING),
         pos |-> IF k = Len(MAGIC_STRING) THEN p + k ELSE Min(p + k + 1, Len(in))]

HeaderDefault ==
    [width |-> 0, height |-> 0, channels |-> "Rgb", colorspace |-> "SRgbWithLinearAlpha"]

\* Header::decode: the result and the position the source is left at
HeaderDecode(in, p) ==
    LET m  == MagicEq(in, p)
        w  == next(in, m.pos)
        h  == next(in, m.pos + 1)
        c  == next(in, m.pos + 2)
        s  == next(in, m.pos + 3)
        ch == IF c.some THEN ChannelsTryFrom(c.value) ELSE None
        cs == IF s.some THEN ColorSpaceTryFrom(s.value) ELSE None
    IN  IF ~m.eq THEN [hdr |-> None, pos |-> m.pos]
        ELSE IF ~w.some \/ ~h.some \/ ~c.some THEN [hdr |-> None, pos |-> Len(in)]
        ELSE IF ~ch.some THEN [hdr |-> None, pos |-> m.pos + 3]
        ELSE IF ~s.some THEN [hdr |-> None, pos |-> Len(in)]
        ELSE IF ~cs.some THEN [hdr |-> None, pos |-> m.pos + 4]
        ELSE [hdr |-> Some([width      |-> from_be_bytes(<<w.value, w.value, w.value, w.value>>),
                            height     |-> from_be_bytes(<<h.value, h.value, h.value, h.value>>),
                            channels   |-> ch.value,
                            colorspace |-> cs.value]),
              pos |-> m.pos + 4]

HeaderEncode(h) ==
    <<113, 111, 105, 102,
      AsU8(Shr(h.width, 24)),
      AsU8(Shr(h.width, 16)),
      AsU8(Shr(h.width, 8)),
      AsU8(h.width),
      AsU8(BitXor(Shr(h.height, 24), 255)),
      AsU8(BitXor(Shr(h.height, 16), 255)),
      AsU8(BitXor(Shr(h.height, 8), 255)),
      AsU8(BitXor(h.height, 255)),
      ChannelsAsU8(h.channels),
      ColorSpaceAsU8(h.colorspace)>>

-----------------------------------------------------------------------------
(* Rgba *)

RgbaOf(r, g, b, a) == [red |-> r, green |-> g, blue |-> b, alpha |-> a]

RgbaNew == RgbaOf(0, 0, 0, 255)

RgbaZero == RgbaOf(0, 0, 0, 0)

\* hash_index with the multiplications saturating at 255 instead of wrapping
hash_index_saturating(c) ==
    wrapping_rem(
        wrapping_add(
            wrapping_add(
                wrapping_add(Min(c.red * 3, 255), Min(c.green * 5, 255)),
                Min(c.blue * 7, 255)),
            Min(c.alpha * 11, 255)),
        64)

hash_index(c) ==
    wrapping_rem(
        wrapping_add(
            wrapping_add(
                wrapping_add(wrapping_mul(c.red, 3), wrapping_mul(c.green, 5)),
                wrapping_mul(c.blue, 7)),
            wrapping_mul(c.alpha, 11)),
        64)

\* Rgba::decode: four next()? in a row
RgbaDecode(in, p) ==
    IF p + 4 <= Len(in)
    THEN Some(RgbaOf(in[p + 1], in[p + 2], in[p + 3], in[p + 4]))
    ELSE None

\* decode_with_alpha that takes the opaque alpha of Rgba::new instead of its argument
RgbaDecodeWithDefaultAlpha(in, p, alpha) ==
    IF p + 3 <= Len(in)
    THEN Some(RgbaOf(in[p + 1], in[p + 2], in[p + 3], RgbaNew.alpha))
    ELSE None

\* Rgba::decode_with_alpha: three next()? in a row
RgbaDecodeWithAlpha(in, p, alpha) ==
    IF p + 3 <= Len(in)
    THEN Some(RgbaOf(in[p + 1], in[p + 2], in[p + 3], alpha))
    ELSE None

-----------------------------------------------------------------------------
(* Data *)

\* Data::new built from Rgba::new (alpha 255) instead of Rgba::zero
DataNewOpaque == [last_seen_pixel |-> RgbaNew, stored_pixels |-> [i \in 0..63 |-> RgbaNew]]

DataNew == [last_seen_pixel |-> RgbaZero, stored_pixels |-> [i \in 0..63 |-> RgbaZero]]

DataDefault == DataNew

-----------------------------------------------------------------------------
(* The inputs: byte streams handed to decode_into *)

Terminator == <<0, 0, 0, 0, 0, 0, 0, 1>>

Widths4 == {<<0, 0, 0, 1>>, <<0, 0, 3, 0>>, <<0, 0, 4, 1>>, <<1, 2, 3, 0>>}

Heights4 == {<<0, 0, 0, 1>>, <<0, 0, 1, 0>>}

ChannelBytes == {3, 4, 5}

ColorSpaceBytes == {0, 1, 2}

\* 14-byte headers as the wire layout writes them, with defined and
\* undefined channel / colorspace tags
FullHeaders ==
    {MAGIC_STRING \o w \o h \o <<c, s>> :
        w \in Widths4, h \in Heights4, c \in ChannelBytes, s \in ColorSpaceBytes}

TruncatedHeaders == {SubSeq(x, 1, n) : x \in FullHeaders, n \in 0..13}

BadMagics == {<<113, 111, 105, 103>>, <<113, 111, 102, 105>>, <<81, 111, 105, 102>>}

BadMagicHeaders ==
    {m \o SubSeq(x, 5, n) : m \in BadMagics, x \in {MAGIC_STRING \o <<0, 0, 3, 0, 0, 0, 0, 1, 4, 0>>},
                            n \in {4, 14}}

\* The header the chunk streams are appended to
StreamHeader == MAGIC_STRING \o <<0, 0, 3, 0>> \o <<0, 0, 0, 1>> \o <<4, 0>>

\* Complete chunks: literal RGBA, literal RGB, index, small diff, luma, run
ChunkSet ==
    {<<255, 10, 20, 30, 255>>, <<254, 1, 2, 3>>, <<9>>, <<127>>, <<160, 136>>,
     <<192>>, <<253>>}

\* What follows the complete chunks: nothing, the terminator, or a chunk cut short
Tails == {<<>>, Terminator, <<254, 1>>, <<255, 1, 2, 3>>, <<160>>}

RECURSIVE BodiesOfLen(_)
BodiesOfLen(n) ==
    IF n = 0 THEN {<<>>}
    ELSE {c \o b : c \in ChunkSet, b \in BodiesOfLen(n - 1)}

Bodies == UNION {BodiesOfLen(n) : n \in 0..MaxChunks}

Streams == {StreamHeader \o b \o t : b \in Bodies, t \in Tails}

Inputs == FullHeaders \cup TruncatedHeaders \cup BadMagicHeaders \cup Streams

-----------------------------------------------------------------------------
(* Data::decode_into *)

TagRgb == 254

TagRgba == 255

TagMask == 192

TagIndex == 0

TagDiff == 64

TagLuma == 128

TagRun == 192

\* Arm with the guard of the run arm testing three bits instead of two
ArmRunThreeBits(byte) ==
    IF byte = TagRgb THEN "rgb"
    ELSE IF byte = TagRgba THEN "rgba"
    ELSE IF BitAnd(byte, TagMask) = TagIndex THEN "index"
    ELSE IF BitAnd(byte, TagMask) = TagDiff THEN "diff"
    ELSE IF BitAnd(byte, TagMask) = TagLuma THEN "luma"
    ELSE IF BitAnd(byte, 224) = 224 THEN "run"
    ELSE "unknown"

\* The match arm of decode_into that a tag byte selects (first match wins)
Arm(byte) ==
    IF byte = TagRgb THEN "rgb"
    ELSE IF byte = TagRgba THEN "rgba"
    ELSE IF BitAnd(byte, TagMask) = TagIndex THEN "index"
    ELSE IF BitAnd(byte, TagMask) = TagDiff THEN "diff"
    ELSE IF BitAnd(byte, TagMask) = TagLuma THEN "luma"
    ELSE IF BitAnd(byte, TagMask) = TagRun THEN "run"
    ELSE "unknown"

shift(old_value, read_byte, s) ==
    wrapping_add(old_value, wrapping_sub(BitXor(Shr(read_byte, s), 3), 2))

\* the literals 0x0011_1111 and 0x1111 of the luma arm
LumaGreenMask == 1118481

LumaNibbleMask == 4369

LumaGreenDiff(byte) == wrapping_sub(BitAnd(byte, LumaGreenMask), 32)

LumaRedDiff(byte, second_byte) ==
    wrapping_add(wrapping_sub(BitAnd(Shr(second_byte, 4), LumaNibbleMask), 8),
                 LumaGreenDiff(byte))

LumaBlueDiff(byte, second_byte) ==
    wrapping_add(wrapping_sub(BitAnd(second_byte, LumaNibbleMask), 8),
                 LumaGreenDiff(byte))

\* `+` on u8 overflows in the luma arm
LumaOverflows(p, byte, second_byte) ==
    \/ p.red + LumaRedDiff(byte, second_byte) > 255
    \/ p.green + LumaGreenDiff(byte) > 255
    \/ p.blue + LumaBlueDiff(byte, second_byte) > 255

RunLength(byte) == BitAnd(byte, 63)

Repeat(v, n) == [i \in 1..n |-> v]

Running == pc = "loop" /\ pos < Len(input)

TagByte == input[pos + 1]

\* A caller starts decode_into on this Data with a source and an empty sink
Call ==
    /\ pc = "idle"
    /\ calls < MaxCalls
    /\ \E in \in Inputs : input' = in
    /\ pos' = 0
    /\ sink' = <<>>
    /\ header' = None
    /\ result' = "none"
    /\ pc' = "header"
    /\ calls' = calls + 1
    /\ UNCHANGED <<last_seen_pixel, stored_pixels, overflow_checks, pure_vars>>

\* if let Some(header) = Header::decode(source) { sink.reserve(..) ... } else { Err(Header) }
DecodeHeader ==
    /\ pc = "header"
    /\ LET r == HeaderDecode(input, pos)
       IN  /\ pos' = r.pos
           /\ header' = r.hdr
           /\ IF r.hdr.some
              THEN pc' = "loop" /\ result' = result
              ELSE pc' = "done" /\ result' = "Header"
    /\ UNCHANGED <<input, last_seen_pixel, stored_pixels, sink, calls,
                   overflow_checks, pure_vars>>

\* 0b1111_1110 => Rgba::decode_with_alpha(source, self.last_seen_pixel.alpha)
LiteralRgb ==
    /\ Running
    /\ Arm(TagByte) = "rgb"
    /\ LET value == RgbaDecodeWithAlpha(input, pos + 1, last_seen_pixel.alpha)
       IN  IF value.some
           THEN /\ last_seen_pixel' = value.value
                /\ sink' = Append(sink, value.value)
                /\ pos' = pos + 4
                /\ UNCHANGED <<pc, result>>
           ELSE /\ pos' = Len(input)
                /\ pc' = "done"
                /\ result' = "OutOfBytes"
                /\ UNCHANGED <<last_seen_pixel, sink>>
    /\ UNCHANGED <<input, stored_pixels, header, calls, overflow_checks,
                   pure_vars>>

\* 0b1111_1111 => Rgba::decode(source)
LiteralRgba ==
    /\ Running
    /\ Arm(TagByte) = "rgba"
    /\ LET value == RgbaDecode(input, pos + 1)
       IN  IF value.some
           THEN /\ last_seen_pixel' = value.value
                /\ sink' = Append(sink, value.value)
                /\ pos' = pos + 5
                /\ UNCHANGED <<pc, result>>
           ELSE /\ pos' = Len(input)
                /\ pc' = "done"
                /\ result' = "OutOfBytes"
                /\ UNCHANGED <<last_seen_pixel, sink>>
    /\ UNCHANGED <<input, stored_pixels, header, calls, overflow_checks,
                   pure_vars>>

\* the index arm pushing the previous pixel instead of the slot it read
IndexChunkKeepsPrevious ==
    /\ Running
    /\ Arm(TagByte) = "index"
    /\ sink' = Append(sink, last_seen_pixel)
    /\ pos' = pos + 1
    /\ UNCHANGED <<input, last_seen_pixel, stored_pixels, header, result, pc, calls,
                   overflow_checks, pure_vars>>

\* byte & 0b1100_0000 == 0b0000_0000 => self.stored_pixels[byte as usize]
IndexChunk ==
    /\ Running
    /\ Arm(TagByte) = "index"
    /\ last_seen_pixel' = stored_pixels[TagByte]
    /\ sink' = Append(sink, stored_pixels[TagByte])
    /\ pos' = pos + 1
    /\ UNCHANGED <<input, stored_pixels, header, result, pc, calls,
                   overflow_checks, pure_vars>>

\* byte & 0b1100_0000 == 0b0100_0000 => shift(..) on red, green, blue
DiffChunk ==
    /\ Running
    /\ Arm(TagByte) = "diff"
    /\ LET value == RgbaOf(shift(last_seen_pixel.red, TagByte, 4),
                           shift(last_seen_pixel.green, TagByte, 2),
                           shift(last_seen_pixel.blue, TagByte, 0),
                           last_seen_pixel.alpha)
       IN  /\ last_seen_pixel' = value
           /\ sink' = Append(sink, value)
    /\ pos' = pos + 1
    /\ UNCHANGED <<input, stored_pixels, header, result, pc, calls,
                   overflow_checks, pure_vars>>

\* byte & 0b1100_0000 == 0b1000_0000 => if let Some(second_byte) = source.next() {..}
\* (no else: without a second byte the arm does nothing and the loop goes on)
LumaChunk ==
    /\ Running
    /\ Arm(TagByte) = "luma"
    /\ LET second_byte == next(input, pos + 1)
       IN  IF ~second_byte.some
           THEN /\ pos' = pos + 1
                /\ UNCHANGED <<last_seen_pixel, sink, pc, result>>
           ELSE IF overflow_checks /\ LumaOverflows(last_seen_pixel, TagByte, second_byte.value)
           THEN /\ pos' = pos + 2
                /\ pc' = "done"
                /\ result' = "panic"
                /\ UNCHANGED <<last_seen_pixel, sink>>
           ELSE LET value ==
                        RgbaOf(AsU8(last_seen_pixel.red + LumaRedDiff(TagByte, second_byte.value)),
                               AsU8(last_seen_pixel.green + LumaGreenDiff(TagByte)),
                               AsU8(last_seen_pixel.blue + LumaBlueDiff(TagByte, second_byte.value)),
                               last_seen_pixel.alpha)
                IN  /\ last_seen_pixel' = value
                    /\ sink' = Append(sink, value)
                    /\ pos' = pos + 2
                    /\ UNCHANGED <<pc, result>>
    /\ UNCHANGED <<input, stored_pixels, header, calls, overflow_checks,
                   pure_vars>>

\* the run arm loading the cache slot of its length field, as the index arm does
RunChunkLoadsSlot ==
    /\ Running
    /\ Arm(TagByte) = "run"
    /\ last_seen_pixel' = stored_pixels[RunLength(TagByte)]
    /\ sink' = sink \o Repeat(stored_pixels[RunLength(TagByte)], RunLength(TagByte))
    /\ pos' = pos + 1
    /\ UNCHANGED <<input, stored_pixels, header, result, pc, calls,
                   overflow_checks, pure_vars>>

\* byte & 0b1100_0000 == 0b1100_0000 => for _ in 0..(byte & 0b0011_1111) { push }
RunChunk ==
    /\ Running
    /\ Arm(TagByte) = "run"
    /\ sink' = sink \o Repeat(last_seen_pixel, RunLength(TagByte))
    /\ pos' = pos + 1
    /\ UNCHANGED <<input, last_seen_pixel, stored_pixels, header, result, pc,
                   calls, overflow_checks, pure_vars>>

\* The loop is left: source.next() is None => Ok(header); _ => Err(UnknownTag)
LoopExit ==
    /\ pc = "loop"
    /\ IF pos < Len(input)
       THEN /\ Arm(TagByte) = "unknown"
            /\ result' = "UnknownTag"
            /\ pos' = pos + 1
       ELSE /\ result' = "Ok"
            /\ pos' = pos
    /\ pc' = "done"
    /\ UNCHANGED <<input, last_seen_pixel, stored_pixels, sink, header, calls,
                   overflow_checks, pure_vars>>

\* decode_into has returned: the caller takes the result, and the source and
\* the sink of the call go out of scope; the Data lives on
Return ==
    /\ pc = "done"
    /\ pc' = "idle"
    /\ input' = <<>>
    /\ pos' = 0
    /\ sink' = <<>>
    /\ header' = None
    /\ result' = "none"
    /\ UNCHANGED <<last_seen_pixel, stored_pixels, calls, overflow_checks,
                   pure_vars>>

\* Data::reset between calls (also before the caller lets go of the sink)
Reset ==
    /\ pc \in {"idle", "done"}
    /\ last_seen_pixel # DataDefault.last_seen_pixel \/ stored_pixels # DataDefault.stored_pixels
    /\ last_seen_pixel' = DataDefault.last_seen_pixel
    /\ stored_pixels' = DataDefault.stored_pixels
    /\ UNCHANGED <<input, pos, sink, header, result, pc, calls, overflow_checks,
                   pure_vars>>

Init ==
    /\ input = <<>>
    /\ pos = 0
    /\ last_seen_pixel = DataNew.last_seen_pixel
    /\ stored_pixels = DataNew.stored_pixels
    /\ sink = <<>>
    /\ header = None
    /\ result = "none"
    /\ pc = "idle"
    /\ calls = 0
    /\ overflow_checks \in BOOLEAN
    /\ self_header = HeaderDefault
    /\ encoded = <<>>
    /\ hash_self = RgbaZero
    /\ hash_out = None

Next ==
    \/ Call
    \/ DecodeHeader
    \/ LiteralRgb
    \/ LiteralRgba
    \/ IndexChunk
    \/ DiffChunk
    \/ LumaChunk
    \/ RunChunk
    \/ LoopExit
    \/ Return
    \/ Reset

Spec == Init /\ [][Next]_vars

-----------------------------------------------------------------------------
(* Header::encode on its own *)

HeaderWidths == {0, 1, 255, 256, 768, 65536, 16909060, 2130706433}

HeaderValues ==
    {[width |-> w, height |-> h, channels |-> c, colorspace |-> s] :
        w \in HeaderWidths, h \in HeaderWidths, c \in {"Rgb", "Rgba"},
        s \in {"SRgbWithLinearAlpha", "FullLinear"}}

InitEncode ==
    /\ input = <<>>
    /\ pos = 0
    /\ last_seen_pixel = DataNew.last_seen_pixel
    /\ stored_pixels = DataNew.stored_pixels
    /\ sink = <<>>
    /\ header = None
    /\ result = "none"
    /\ pc = "idle"
    /\ calls = 0
    /\ overflow_checks \in BOOLEAN
    /\ self_header \in HeaderValues
    /\ encoded = <<>>
    /\ hash_self = RgbaZero
    /\ hash_out = None

\* self.encode()
EncodeHeader ==
    /\ encoded = <<>>
    /\ encoded' = HeaderEncode(self_header)
    /\ UNCHANGED <<decoder_vars, self_header, hash_self, hash_out>>

NextEncode == EncodeHeader

SpecEncode == InitEncode /\ [][NextEncode]_vars

-----------------------------------------------------------------------------
(* Rgba::hash_index on its own *)

ChannelValues == {0, 1, 21, 63, 64, 85, 128, 255}

Colors ==
    {RgbaOf(r, g, b, a) :
        r \in ChannelValues, g \in ChannelValues, b \in ChannelValues, a \in ChannelValues}

InitHash ==
    /\ input = <<>>
    /\ pos = 0
    /\ last_seen_pixel = DataNew.last_seen_pixel
    /\ stored_pixels = DataNew.stored_pixels
    /\ sink = <<>>
    /\ header = None
    /\ result = "none"
    /\ pc = "idle"
    /\ calls = 0
    /\ overflow_checks \in BOOLEAN
    /\ self_header = HeaderDefault
    /\ encoded = <<>>
    /\ hash_self \in Colors
    /\ hash_out = None

\* self.hash_index()
HashIndex ==
    /\ hash_out = None
    /\ hash_out' = Some(hash_index(hash_self))
    /\ UNCHANGED <<decoder_vars, self_header, encoded, hash_self>>

NextHash == HashIndex

SpecHash == InitHash /\ [][NextHash]_vars

-----------------------------------------------------------------------------
(* decode_into on every tag byte: a first call on a fresh Data whose stream *)
(* has one chunk with each of the 256 tags, followed by four more bytes     *)

TagStreams == {StreamHeader \o <<b, 136, 2, 3, 4>> : b \in 0..255}

InitTags ==
    /\ input \in TagStreams
    /\ pos = 0
    /\ last_seen_pixel = DataNew.last_seen_pixel
    /\ stored_pixels = DataNew.stored_pixels
    /\ sink = <<>>
    /\ header = None
    /\ result = "none"
    /\ pc = "header"
    /\ calls = 1
    /\ overflow_checks \in BOOLEAN
    /\ self_header = HeaderDefault
    /\ encoded = <<>>
    /\ hash_self = RgbaZero
    /\ hash_out = None

NextTags ==
    \/ DecodeHeader
    \/ LiteralRgb
    \/ LiteralRgba
    \/ IndexChunk
    \/ DiffChunk
    \/ LumaChunk
    \/ RunChunk
    \/ LoopExit

SpecTags == InitTags /\ [][NextTags]_vars

-----------------------------------------------------------------------------
(* The wire format, as the properties below speak of it *)

HasMagic(in) == Len(in) >= 4 /\ SubSeq(in, 1, 4) = MAGIC_STRING

\* the first 14 bytes are a header of the wire layout with defined tags
WireHeader(in) ==
    /\ Len(in) >= 14
    /\ HasMagic(in)
    /\ in[13] \in {ChannelsRgb, ChannelsRgba}
    /\ in[14] \in {SRgbWithLinearAlpha, FullLinear}

to_be_bytes(x) == <<AsU8(Shr(x, 24)), AsU8(Shr(x, 16)), AsU8(Shr(x, 8)), AsU8(x)>>

\* bytes of a chunk, its tag included
ChunkLength(byte) ==
    IF Arm(byte) = "rgb" THEN 4
    ELSE IF Arm(byte) = "rgba" THEN 5
    ELSE IF Arm(byte) = "luma" THEN 2
    ELSE 1

\* in[from+1 .. to] is a sequence of complete chunks
RECURSIVE ChunksEndAt(_, _, _)
ChunksEndAt(in, from, to) ==
    IF from = to THEN TRUE
    ELSE IF from > to THEN FALSE
    ELSE ChunksEndAt(in, from + ChunkLength(in[from + 1]), to)

EndsWithTerminator(in) ==
    Len(in) >= 14 + Len(Terminator)
    /\ SubSeq(in, Len(in) - Len(Terminator) + 1, Len(in)) = Terminator

ColorArms == {"rgb", "rgba", "index", "diff", "luma"}

-----------------------------------------------------------------------------
(* Properties *)

\* C1: cache correctness. In a stream that decode_into accepts (from here on
\* it is whole chunks, and the build does not panic on overflow), right after
\* a literal, index, small-diff or luma chunk has decoded to a color C the
\* cache slot stored_pixels[hash_index(C)] holds C.
C1_CacheHoldsDecodedColor ==
    [][(/\ Running
        /\ Arm(TagByte) \in ColorArms
        /\ ChunksEndAt(input, pos, Len(input))
        /\ ~overflow_checks)
       => stored_pixels'[hash_index(last_seen_pixel')] = last_seen_pixel']_vars

\* C2: a valid header, complete chunks and then end-of-stream without the
\* terminator makes decode_into return MissingTerminator.
C2_MissingTerminator ==
    (/\ pc = "done"
     /\ WireHeader(input)
     /\ ChunksEndAt(input, 14, Len(input))
     /\ ~EndsWithTerminator(input))
    => result = "MissingTerminator"

\* C3: when what is left of a valid stream, at a chunk boundary, is exactly
\* the 8-byte terminator, decoding stops: the step pushes no pixel and leaves
\* the previous pixel alone.
C3_TerminatorEndsDecoding ==
    [][(/\ Running
        /\ WireHeader(input)
        /\ pos >= 14
        /\ ChunksEndAt(input, 14, pos)
        /\ SubSeq(input, pos + 1, Len(input)) = Terminator)
       => (sink' = sink /\ last_seen_pixel' = last_seen_pixel)]_vars

\* C4: a chunk cut short by the end of the stream (literal RGB with fewer
\* than 3 bytes after the tag, literal RGBA with fewer than 4, luma without
\* its second byte) makes decode_into return OutOfBytes.
C4_TruncatedChunk ==
    [][(/\ Running
        /\ \/ Arm(TagByte) = "rgb" /\ Len(input) - (pos + 1) < 3
           \/ Arm(TagByte) = "rgba" /\ Len(input) - (pos + 1) < 4
           \/ Arm(TagByte) = "luma" /\ Len(input) - (pos + 1) < 1)
       => (pc' = "done" /\ result' = "OutOfBytes")]_vars

\* C5: on 14 bytes "qoif" w0..w3 h0..h3 c s with defined tags Header::decode
\* succeeds, consumes exactly the 14 bytes and returns the big-endian width
\* and height and the two tags.
C5_HeaderDecodeWireLayout ==
    [][(pc = "header" /\ WireHeader(input))
       => (/\ header'.some
           /\ pos' = 14
           /\ header'.value.width = from_be_bytes(SubSeq(input, 5, 8))
           /\ header'.value.height = from_be_bytes(SubSeq(input, 9, 12))
           /\ ChannelsAsU8(header'.value.channels) = input[13]
           /\ ColorSpaceAsU8(header'.value.colorspace) = input[14])]_vars

\* C6: Header::encode returns "qoif", the width as 4 big-endian bytes, the
\* height as 4 big-endian bytes, the channel tag and the colorspace tag.
C6_HeaderEncodeWireLayout ==
    encoded # <<>>
    => encoded = MAGIC_STRING \o to_be_bytes(self_header.width)
                    \o to_be_bytes(self_header.height)
                    \o <<ChannelsAsU8(self_header.channels),
                         ColorSpaceAsU8(self_header.colorspace)>>

\* C7: an input that starts with the magic but has fewer than 14 bytes makes
\* decode_into return DecodeError::Header.
C7_TruncatedHeader ==
    (pc = "done" /\ HasMagic(input) /\ Len(input) < 14) => result = "Header"

\* C8: a 14-byte header with the right magic and an undefined channel byte
\* (offset 12) or colorspace byte (offset 13) makes decode_into return
\* DecodeError::Header.
C8_UndefinedHeaderTags ==
    (/\ pc = "done"
     /\ Len(input) >= 14
     /\ HasMagic(input)
     /\ \/ input[13] \notin {ChannelsRgb, ChannelsRgba}
        \/ input[14] \notin {SRgbWithLinearAlpha, FullLinear})
    => result = "Header"

\* C9: an input whose first 4 bytes are not "qoif" (shorter inputs included)
\* makes decode_into return DecodeError::Header; the step pushes no pixel and
\* leaves the previous pixel and the cache as they were.
C9_MalformedMagic ==
    [][(pc = "header" /\ ~HasMagic(input))
       => (/\ pc' = "done"
           /\ result' = "Header"
           /\ sink' = sink
           /\ last_seen_pixel' = last_seen_pixel
           /\ stored_pixels' = stored_pixels)]_vars

\* C9 witness: a call on a Data that has decoded pixels before returned
\* Header for a stream starting with "qoig"
C9_Witness ==
    /\ pc = "done"
    /\ result = "Header"
    /\ Len(input) >= 4
    /\ SubSeq(input, 1, 4) = <<113, 111, 105, 103>>
    /\ sink = <<>>
    /\ last_seen_pixel # RgbaZero

\* C10: a run tag 11xxxxxx pushes xxxxxx + 1 copies of the previous pixel.
C10_RunBias ==
    [][(Running /\ Arm(TagByte) = "run")
       => sink' = sink \o Repeat(last_seen_pixel, BitAnd(TagByte, 63) + 1)]_vars

\* C11: a small-diff tag 01rrggbb adds rr - 2, gg - 2 and bb - 2 (mod 256) to
\* red, green and blue of the previous pixel and keeps its alpha.
C11_SmallDiff ==
    [][(Running /\ Arm(TagByte) = "diff")
       => LET rr == (TagByte \div 16) % 4
              gg == (TagByte \div 4) % 4
              bb == TagByte % 4
          IN  last_seen_pixel' =
                  RgbaOf((last_seen_pixel.red + rr - 2 + 256) % 256,
                         (last_seen_pixel.green + gg - 2 + 256) % 256,
                         (last_seen_pixel.blue + bb - 2 + 256) % 256,
                         last_seen_pixel.alpha)]_vars

\* C12: a luma chunk 10xxxxxx rrrrbbbb, with green_diff = xxxxxx - 32, adds
\* green_diff to green, (rrrr - 8) + green_diff to red and (bbbb - 8) +
\* green_diff to blue (mod 256) and keeps alpha.
C12_Luma ==
    [][(Running /\ Arm(TagByte) = "luma" /\ pos + 2 <= Len(input))
       => LET green_diff == (TagByte % 64) - 32
              rrrr       == input[pos + 2] \div 16
              bbbb       == input[pos + 2] % 16
          IN  last_seen_pixel' =
                  RgbaOf((last_seen_pixel.red + (rrrr - 8) + green_diff + 512) % 256,
                         (last_seen_pixel.green + green_diff + 512) % 256,
                         (last_seen_pixel.blue + (bbbb - 8) + green_diff + 512) % 256,
                         last_seen_pixel.alpha)]_vars

\* C13: the additions of a small-diff or luma chunk wrap modulo 256; whatever
\* the previous pixel and the chunk bytes, the chunk ends with a pixel whose
\* channels are the wrapped sums, never with an overflow panic.
C13_WrapNeverPanic ==
    [][(Running /\ Arm(TagByte) \in {"diff", "luma"})
       => (/\ result' # "panic"
           /\ pc' = "loop"
           /\ (Arm(TagByte) = "luma" /\ pos + 2 <= Len(input))
              => last_seen_pixel' =
                     RgbaOf((last_seen_pixel.red + LumaRedDiff(TagByte, input[pos + 2])) % 256,
                            (last_seen_pixel.green + LumaGreenDiff(TagByte)) % 256,
                            (last_seen_pixel.blue + LumaBlueDiff(TagByte, input[pos + 2])) % 256,
                            last_seen_pixel.alpha))]_vars

\* C14: hash_index, computed with wrapping 8-bit arithmetic, returns
\* (3*r + 5*g + 7*b + 11*a) mod 64 as computed with unbounded integers, a
\* value in 0..63.
C14_HashIndex ==
    hash_out.some
    => /\ hash_out.value =
              (3 * hash_self.red + 5 * hash_self.green + 7 * hash_self.blue
                 + 11 * hash_self.alpha) % 64
       /\ hash_out.value \in 0..63

\* C14 witness: hash_index was applied to a color whose products and sums
\* exceed 255
C14_Witness ==
    /\ hash_out.some
    /\ hash_self.red * 3 > 255
    /\ hash_self.alpha * 11 > 255
    /\ hash_out.value # 0

\* the chunk kind of each tag byte in the table of the format
TagTable(b) ==
    IF b = 254 THEN "rgb"
    ELSE IF b = 255 THEN "rgba"
    ELSE IF b \div 64 = 0 THEN "index"
    ELSE IF b \div 64 = 1 THEN "diff"
    ELSE IF b \div 64 = 2 THEN "luma"
    ELSE "run"

\* C15: every tag byte is dispatched to the chunk kind of the table, so
\* decode_into never returns UnknownTag.
C15_DispatchExhaustive ==
    /\ result # "UnknownTag"
    /\ Running => Arm(TagByte) = TagTable(TagByte)

\* C15 witness: a stream whose first chunk has the lowest run tag was decoded
\* to its end
C15_Witness ==
    /\ pc = "done"
    /\ result = "Ok"
    /\ Len(input) > 14
    /\ input[15] = 192

\* C16: a literal-RGB chunk 0xFE r g b decodes to (r, g, b, alpha of the
\* previous pixel) and a literal-RGBA chunk 0xFF r g b a to (r, g, b, a); one
\* pixel is pushed, it becomes the previous pixel, and 3 resp. 4 bytes are
\* consumed after the tag.
C16_LiteralChunks ==
    [][/\ (Running /\ TagByte = 254 /\ pos + 4 <= Len(input))
          => LET value == RgbaOf(input[pos + 2], input[pos + 3], input[pos + 4],
                                 last_seen_pixel.alpha)
             IN  /\ sink' = Append(sink, value)
                 /\ last_seen_pixel' = value
                 /\ pos' = pos + 1 + 3
       /\ (Running /\ TagByte = 255 /\ pos + 5 <= Len(input))
          => LET value == RgbaOf(input[pos + 2], input[pos + 3], input[pos + 4],
                                 input[pos + 5])
             IN  /\ sink' = Append(sink, value)
                 /\ last_seen_pixel' = value
                 /\ pos' = pos + 1 + 4]_vars

\* C16 witness: a literal-RGB chunk was decoded right after a literal-RGBA
\* chunk and took over its alpha
C16_Witness ==
    /\ pc = "loop"
    /\ pos = 23
    /\ SubSeq(input, 15, 23) = <<255, 10, 20, 30, 255, 254, 1, 2, 3>>
    /\ sink[Len(sink)] = RgbaOf(1, 2, 3, 255)
    /\ last_seen_pixel = RgbaOf(1, 2, 3, 255)

\* C17: a run chunk changes neither the previous pixel nor any cache slot,
\* and every pixel it pushes is the previous pixel.
C17_RunKeepsState ==
    [][(Running /\ TagTable(TagByte) = "run")
       => (/\ last_seen_pixel' = last_seen_pixel
           /\ stored_pixels' = stored_pixels
           /\ Len(sink') >= Len(sink)
           /\ SubSeq(sink', 1, Len(sink)) = sink
           /\ \A i \in (Len(sink) + 1)..Len(sink') : sink'[i] = last_seen_pixel)]_vars

\* C17 witness: a run chunk has pushed copies of a previous pixel other than
\* the zero color
C17_Witness ==
    /\ pc = "loop"
    /\ pos = 16
    /\ SubSeq(input, 15, 16) = <<127, 253>>
    /\ last_seen_pixel # RgbaZero
    /\ Len(sink) > 8
    /\ sink[Len(sink)] = last_seen_pixel

\* C18: an index chunk 00xxxxxx reads cache slot xxxxxx, which lies in
\* 0..63, pushes that slot's color as one pixel and makes it the previous
\* pixel, without consuming further bytes.
C18_IndexChunk ==
    [][(Running /\ TagTable(TagByte) = "index")
       => (/\ TagByte \in DOMAIN stored_pixels
           /\ TagByte \in 0..63
           /\ sink' = Append(sink, stored_pixels[TagByte])
           /\ last_seen_pixel' = stored_pixels[TagByte]
           /\ pos' = pos + 1)]_vars

\* C18 witness: an index chunk was decoded when the previous pixel was not
\* the color of the slot
C18_Witness ==
    /\ pc = "loop"
    /\ pos = 16
    /\ SubSeq(input, 15, 16) = <<127, 9>>
    /\ Len(sink) = 8
    /\ sink[7] # stored_pixels[9]
    /\ sink[8] = stored_pixels[9]
    /\ last_seen_pixel = stored_pixels[9]

\* previous pixel and all 64 cache slots are (0,0,0,0)
ZeroData(p, c) ==
    /\ p = RgbaOf(0, 0, 0, 0)
    /\ DOMAIN c = 0..63
    /\ \A i \in 0..63 : c[i] = RgbaOf(0, 0, 0, 0)

\* C19: a Data built by Data::new / Data::default, and a Data after reset()
\* whatever it decoded before, has previous pixel (0,0,0,0) and 64 cache
\* slots (0,0,0,0). (A step that changes the Data while no call is running
\* is reset.)
C19_InitialState ==
    [][/\ calls = 0 => ZeroData(last_seen_pixel, stored_pixels)
       /\ (/\ pc \in {"idle", "done"}
           /\ pc' = pc
           /\ <<last_seen_pixel, stored_pixels>>' # <<last_seen_pixel, stored_pixels>>)
          => ZeroData(last_seen_pixel', stored_pixels')]_vars

\* C19 witness: reset() after a call that left a previous pixel other than
\* the zero color (the last pixel in the sink of that call)
C19_Witness ==
    /\ pc = "done"
    /\ result = "Ok"
    /\ sink # <<>>
    /\ sink[Len(sink)] # RgbaZero
    /\ last_seen_pixel = RgbaZero

\* what decode_into can return: Ok or a DecodeError
Returns ==
    {"Ok", "MissingTerminator", "Header", "IllegalRun", "ConsecutiveIndex",
     "OutOfBytes", "UnknownTag"}

\* C20: decode_into is a single forward pass that ends by returning Ok or an
\* error: every step of a call either consumes at least one byte of the
\* source or returns, the position never moves back or past the end of the
\* input, a run chunk pushes at most 63 pixels, and the call ends with a
\* return value.
C20_Termination ==
    [][(pc \in {"header", "loop"})
       => (/\ pos' > pos \/ pc' = "done"
           /\ pos' >= pos
           /\ pos' <= Len(input)
           /\ Len(sink') - Len(sink) <= 63
           /\ pc' = "done" => result' \in Returns)]_vars

====
